---- MODULE Spec2Model ----
(***************************************************************************)
(* Altitude regulator of src/Altitude.py: the calculateur state machine    *)
(* over a SystemeAvion record, and the ARINC429 / BCD / parity encoders.   *)
(* Spec explores calculateur calls with any of the inputs below (ticks      *)
(* counts them), SpecBCD applies bcd_encode, SpecVol repeats the periodic   *)
(* step on fixed targets, SpecGUI is AvionGUI: its buttons, its Entry       *)
(* widgets and the callbacks root.after leaves scheduled.                   *)
(*                                                                         *)
(* Numbers.  taux_monte is a Python float; for the engine powers drawn     *)
(* here (Puissances) the double products (p / 10.0) * 100.0 and its half   *)
(* are exact integers, and int((taux * 3.28084) * (dt / 60.0)) equals the  *)
(* truncation of the exact rational for every power 0..100 and every dt of *)
(* Pas, so the model computes over integers: taux_monte in m/min, dt in    *)
(* tenths of a second.                                                     *)
(***************************************************************************)
EXTENDS Integers, Sequences, FiniteSets, TLC

VARIABLES sys_avion, appel, avertissement, etat_avant, ticks, value, digits, bcd, pc,
          entrees, running, en_attente

vars == <<sys_avion, appel, avertissement, etat_avant, ticks, value, digits, bcd, pc,
          entrees, running, en_attente>>

(* ------------------------------ constants ------------------------------ *)

ALTITUDE_MAX == 40000

AU_SOL == 0

CHANGEMENT_ALT == 1

VOL_CROISIERE == 2

\* DT = TIME_STEP_MS / 1000.0 seconds, in tenths of a second
DT == 1

\* default dt of calculateur (1.0 s), in tenths of a second
DT_DEFAUT == 10

(* ------------------------------- bounds -------------------------------- *)

\* number of calculateur calls explored
MaxTicks == 3

\* largest value handed to bcd_encode
MaxValue == 10000

\* largest digit count handed to bcd_encode
MaxDigits == 4

\* largest number of simulation_step callbacks left scheduled by root.after
MaxEnAttente == 2

(* --------------------------- inputs explored --------------------------- *)

AltitudesDesirees == {0, 2, 10000, ALTITUDE_MAX}

TauxEntrees == {0, 100}

AnglesEntrees == {0, 16, -16}

Puissances == {0, 50, 100}

\* dt in tenths of a second: the GUI's 0.1 s, the default 1.0 s, and 20 min
Pas == {DT, DT_DEFAUT, 12000}

(* ------------------------- integer / bit helpers ----------------------- *)

Abs(x) == IF x < 0 THEN -x ELSE x

Min(a, b) == IF a < b THEN a ELSE b

Max(a, b) == IF a > b THEN a ELSE b

\* Python int(): truncation toward zero of the quotient a / b, b > 0
TruncDiv(a, b) == IF a >= 0 THEN a \div b ELSE -((-a) \div b)

RECURSIVE Gcd(_, _)
Gcd(a, b) == IF b = 0 THEN a ELSE Gcd(b, a % b)

RECURSIVE Pow(_, _)
Pow(b, n) == IF n = 0 THEN 1 ELSE b * Pow(b, n - 1)

\* Python a | b on non-negative integers
RECURSIVE BitOr(_, _)
BitOr(a, b) ==
  IF a = 0 THEN b
  ELSE IF b = 0 THEN a
  ELSE (IF a % 2 = 1 \/ b % 2 = 1 THEN 1 ELSE 0) + 2 * BitOr(a \div 2, b \div 2)

\* Python a & b on non-negative integers
RECURSIVE BitAnd(_, _)
BitAnd(a, b) ==
  IF a = 0 \/ b = 0 THEN 0
  ELSE (IF a % 2 = 1 /\ b % 2 = 1 THEN 1 ELSE 0) + 2 * BitAnd(a \div 2, b \div 2)

\* Python a << n
Shl(a, n) == a * Pow(2, n)

\* bin(word).count("1")
RECURSIVE Ones(_)
Ones(w) == IF w = 0 THEN 0 ELSE (w % 2) + Ones(w \div 2)

(* ------------------------------ BCD / parity --------------------------- *)

\* even parity: the bit is set when the count of ones is odd
compute_parityPaire(word) ==
  LET ones == Ones(word)
  IN  IF ones % 2 = 0 THEN 0 ELSE 1

compute_parity(word) ==
  LET ones == Ones(word)
  IN  IF ones % 2 = 0 THEN 1 ELSE 0

\* str(value): the decimal digits of a non-negative integer, most significant first
RECURSIVE Str(_)
Str(v) == IF v < 10 THEN <<v>> ELSE Append(Str(v \div 10), v % 10)

\* s.zfill(width): zeros on the left up to width, never shortens
RECURSIVE Zfill(_, _)
Zfill(s, width) == IF Len(s) >= width THEN s ELSE Zfill(<<0>> \o s, width)

\* the loop shifting by 3 bits instead of 4
RECURSIVE BcdLoopDecale3(_, _)
BcdLoopDecale3(acc, s) ==
  IF s = <<>> THEN acc ELSE BcdLoopDecale3(BitOr(Shl(acc, 3), Head(s)), Tail(s))

\* the loop of bcd_encode: bcd = (bcd << 4) | int(char) for each char of s
RECURSIVE BcdLoop(_, _)
BcdLoop(acc, s) ==
  IF s = <<>> THEN acc ELSE BcdLoop(BitOr(Shl(acc, 4), Head(s)), Tail(s))

bcd_encode(v, d) == BcdLoop(0, Zfill(Str(v), d))

(* ------------------------------ ARINC429 ------------------------------- *)

\* int(round(abs(x) * 10)) for the integer-valued x of this model
Dixiemes(x) == Abs(x) * 10

AvecParite(word) == BitOr(word, compute_parity(word))

\* the altitude word with the mode field one bit lower, over the altitude field
altitude_wordEtat19(s) ==
  AvecParite(BitOr(BitOr(BitOr(Shl(1, 24), Shl(BitAnd(s.etat, 3), 19)),
                         Shl(BitAnd(s.altitude_actuelle, 65535), 4)),
                   Shl(3, 1)))

altitude_word(s) ==
  AvecParite(BitOr(BitOr(BitOr(Shl(1, 24), Shl(BitAnd(s.etat, 3), 20)),
                         Shl(BitAnd(s.altitude_actuelle, 65535), 4)),
                   Shl(3, 1)))

taux_word(s) ==
  LET rate_value == Dixiemes(s.taux_monte)
      rate_bcd   == bcd_encode(rate_value, 4)
  IN  AvecParite(BitOr(BitOr(Shl(2, 24), Shl(rate_bcd, 4)), Shl(3, 1)))

angle_word(s) ==
  LET angle_value == Dixiemes(s.angle_attaque)
      angle_bcd   == Shl(bcd_encode(angle_value, 3), 4)
  IN  AvecParite(BitOr(BitOr(Shl(3, 24), Shl(angle_bcd, 4)), Shl(3, 1)))

encoder_ARINC429(s) == <<altitude_word(s), taux_word(s), angle_word(s)>>

(* -------------------------------- AFDX --------------------------------- *)

\* 0x1001, 0x1002, 0x1003
vlid_alt == 4097

vlid_rate == 4098

vlid_angle == 4099

\* the altitude frame keeping 15 bits of the altitude
frame_altMasque15(s) ==
  BitOr(Shl(BitAnd(vlid_alt, 65535), 16), BitAnd(s.altitude_actuelle, 32767))

frame_alt(s) ==
  BitOr(Shl(BitAnd(vlid_alt, 65535), 16), BitAnd(s.altitude_actuelle, 65535))

frame_rate(s) ==
  LET rate_value == Dixiemes(s.taux_monte)
  IN  BitOr(Shl(BitAnd(vlid_rate, 65535), 16), BitAnd(rate_value, 65535))

frame_angle(s) ==
  LET angle_value == Dixiemes(s.angle_attaque)
  IN  BitOr(Shl(BitAnd(vlid_angle, 65535), 16), BitAnd(angle_value, 65535))

encoder_AFDX(s) == <<frame_alt(s), frame_rate(s), frame_angle(s)>>

(* ------------------------------ regulator ------------------------------ *)

SystemeAvion ==
  [altitude_actuelle |-> 0, taux_monte |-> 0, angle_attaque |-> 0,
   puissance_moteur |-> 0, etat |-> AU_SOL]

\* VOL_CROISIERE -> CHANGEMENT_ALT when the desired altitude differs
SortieCroisiere(s, altitude_desiree) ==
  IF s.etat = VOL_CROISIERE /\ altitude_desiree # s.altitude_actuelle
  THEN [s EXCEPT !.etat = CHANGEMENT_ALT]
  ELSE s

\* the trigger with its two conditions joined by `and`
DecollageEt(s, altitude_desiree, taux_entree, angle_entree, puissance) ==
  /\ s.etat = AU_SOL
  /\ (altitude_desiree > 0 /\ puissance > 0)
  /\ (taux_entree # 0 /\ angle_entree # 0)

\* the AU_SOL -> CHANGEMENT_ALT trigger
Decollage(s, altitude_desiree, taux_entree, angle_entree, puissance) ==
  /\ s.etat = AU_SOL
  /\ \/ (altitude_desiree > 0 /\ puissance > 0)
     \/ (taux_entree # 0 /\ angle_entree # 0)

\* (puissance / 10.0) * 100.0
TauxPuissance(puissance) == (puissance * 100) \div 10

\* taux_calcule *= 0.5
Moitie(taux) == (taux * 5) \div 10

\* taux_calcule of the CHANGEMENT_ALT block
TauxCalcule(s, altitude_desiree, puissance) ==
  LET t == TauxPuissance(puissance)
  IN  IF s.altitude_actuelle < altitude_desiree
      THEN (IF altitude_desiree - s.altitude_actuelle < 1000 THEN Moitie(t) ELSE t)
      ELSE IF s.altitude_actuelle > altitude_desiree
      THEN -(IF s.altitude_actuelle - altitude_desiree < 1000 THEN Moitie(t) ELSE t)
      ELSE t

\* angle_entree of the CHANGEMENT_ALT block, after the default and the inversion
AngleCalcule(s, altitude_desiree, angle_entree) ==
  LET a == IF angle_entree = 0 THEN 5 ELSE angle_entree
  IN  IF s.altitude_actuelle < altitude_desiree THEN a
      ELSE IF s.altitude_actuelle > altitude_desiree THEN -a
      ELSE a

\* the test guarding the stall warning print
Decrochage(angle_attaque) == angle_attaque > 15

\* the test of the passage to VOL_CROISIERE
CroisiereAtteinte(s, altitude_desiree) ==
  \/ (s.altitude_actuelle = altitude_desiree /\ altitude_desiree # 0)
  \/ s.altitude_actuelle >= ALTITUDE_MAX

\* the CHANGEMENT_ALT block: [sys, avertissement]
ChangementAlt(s, altitude_desiree, angle_entree, puissance) ==
  LET s1 == [s EXCEPT !.taux_monte = TauxCalcule(s, altitude_desiree, puissance),
                      !.angle_attaque = AngleCalcule(s, altitude_desiree, angle_entree),
                      !.puissance_moteur = puissance]
      s2 == IF CroisiereAtteinte(s1, altitude_desiree)
            THEN [s1 EXCEPT !.etat = VOL_CROISIERE, !.taux_monte = 0]
            ELSE s1
  IN  [sys |-> s2, avertissement |-> Decrochage(s1.angle_attaque)]

\* the VOL_CROISIERE block leaving angle_attaque as it is
VolCroisiereSansAngle(s, puissance) ==
  [s EXCEPT !.taux_monte = 0, !.puissance_moteur = puissance]

\* the VOL_CROISIERE block assigning the commanded power to taux_monte
VolCroisiereTauxPuissance(s, puissance) ==
  [s EXCEPT !.taux_monte = puissance, !.angle_attaque = 0, !.puissance_moteur = puissance]

\* the VOL_CROISIERE block
VolCroisiere(s, puissance) ==
  [s EXCEPT !.taux_monte = 0, !.angle_attaque = 0, !.puissance_moteur = puissance]

\* the altitude delta rounded to the nearest integer instead of truncated
delta_altArrondi(taux_monte, dt) ==
  LET g == Gcd(dt, 600)
      n == taux_monte * 82021 * (dt \div g)
      d == 25000 * (600 \div g)
      m == Abs(n)
      q == (m \div d) + (IF 2 * (m % d) >= d THEN 1 ELSE 0)
  IN  IF n >= 0 THEN q ELSE -q

\* int((taux_monte * 3.28084) * (dt / 60.0)), dt in tenths of a second:
\* 3.28084 = 82021 / 25000 and dt / 60.0 = dt / 600 in lowest terms
delta_alt(taux_monte, dt) ==
  LET g == Gcd(dt, 600)
  IN  TruncDiv(taux_monte * 82021 * (dt \div g), 25000 * (600 \div g))

\* the clamp without its upper limit
BorneSansMax(altitude) == Max(0, altitude)

\* max(0, min(altitude, ALTITUDE_MAX))
Borne(altitude) == Max(0, Min(altitude, ALTITUDE_MAX))

\* the altitude update closing calculateur
MiseAJourAltitude(s, dt) ==
  [s EXCEPT !.altitude_actuelle = Borne(s.altitude_actuelle + delta_alt(s.taux_monte, dt))]

\* the state in which the blocks of calculateur are evaluated, after the two
\* entry transitions
EtatEntree(altitude_desiree, taux_entree, angle_entree, puissance, s) ==
  LET s1 == SortieCroisiere(s, altitude_desiree)
  IN  IF Decollage(s1, altitude_desiree, taux_entree, angle_entree, puissance)
      THEN [s1 EXCEPT !.etat = CHANGEMENT_ALT]
      ELSE s1

\* calculateur: [sys, avertissement], sys the record after the call and
\* avertissement whether the stall warning was printed.  The default
\* taux_entree = 100 of the take-off is not kept: taux_entree is read nowhere
\* after it.  The returned words are encoder_ARINC429(sys).
calculateur(altitude_desiree, taux_entree, angle_entree, puissance, s, dt) ==
  LET s1 == SortieCroisiere(s, altitude_desiree)
      decolle == Decollage(s1, altitude_desiree, taux_entree, angle_entree, puissance)
      s2 == IF decolle THEN [s1 EXCEPT !.etat = CHANGEMENT_ALT] ELSE s1
      defaut == decolle /\ taux_entree = 0 /\ angle_entree = 0
      angle2 == IF defaut THEN 5 ELSE angle_entree
      r3 == IF s2.etat = CHANGEMENT_ALT
            THEN ChangementAlt(s2, altitude_desiree, angle2, puissance)
            ELSE [sys |-> s2, avertissement |-> FALSE]
      s4 == IF r3.sys.etat = VOL_CROISIERE THEN VolCroisiere(r3.sys, puissance) ELSE r3.sys
  IN  [sys |-> MiseAJourAltitude(s4, dt), avertissement |-> r3.avertissement]

(* ----------------------------- specification --------------------------- *)

AucunAppel ==
  [altitude_desiree |-> 0, taux_entree |-> 0, angle_entree |-> 0, puissance |-> 0, dt |-> 0]

\* the four Entry widgets as AvionGUI.__init__ fills them: "10000", "0", "0", "50"
EntreesInitiales ==
  [valide |-> TRUE, altitude_desiree |-> 10000, taux_entree |-> 0, angle_entree |-> 0,
   puissance |-> 50]

\* the state of AvionGUI after __init__: not running, nothing scheduled
GuiInit ==
  /\ entrees = EntreesInitiales
  /\ running = FALSE
  /\ en_attente = 0

Init ==
  /\ sys_avion = SystemeAvion
  /\ appel = AucunAppel
  /\ avertissement = FALSE
  /\ etat_avant = AU_SOL
  /\ ticks = 0
  /\ value = 0
  /\ digits = 1
  /\ bcd = 0
  /\ pc = "regulateur"
  /\ GuiInit

\* one call calculateur(altitude_desiree, taux_entree, angle_entree, puissance, sys_avion, dt);
\* appel records its arguments, avertissement whether it printed the stall
\* warning, etat_avant the mode it started in
Calculateur ==
  /\ pc = "regulateur"
  /\ ticks < MaxTicks
  /\ \E altitude_desiree \in AltitudesDesirees, taux_entree \in TauxEntrees,
        angle_entree \in AnglesEntrees, puissance \in Puissances, dt \in Pas :
       LET r == calculateur(altitude_desiree, taux_entree, angle_entree, puissance,
                            sys_avion, dt)
       IN  /\ sys_avion' = r.sys
           /\ avertissement' = r.avertissement
           /\ etat_avant' = sys_avion.etat
           /\ appel' = [altitude_desiree |-> altitude_desiree, taux_entree |-> taux_entree,
                        angle_entree |-> angle_entree, puissance |-> puissance, dt |-> dt]
  /\ ticks' = ticks + 1
  /\ UNCHANGED <<value, digits, bcd, pc, entrees, running, en_attente>>

Next == Calculateur

Spec == Init /\ [][Next]_vars

\* bcd_encode applied to inputs drawn from 0..MaxValue and 1..MaxDigits
InitBCD ==
  /\ sys_avion = SystemeAvion
  /\ appel = AucunAppel
  /\ avertissement = FALSE
  /\ etat_avant = AU_SOL
  /\ ticks = 0
  /\ value \in 0..MaxValue
  /\ digits \in 1..MaxDigits
  /\ bcd = 0
  /\ pc = "bcd_pret"
  /\ GuiInit

BcdEncode ==
  /\ pc = "bcd_pret"
  /\ bcd' = bcd_encode(value, digits)
  /\ pc' = "bcd_fait"
  /\ UNCHANGED <<sys_avion, appel, avertissement, etat_avant, ticks, value, digits,
                 entrees, running, en_attente>>

NextBCD == BcdEncode

SpecBCD == InitBCD /\ [][NextBCD]_vars

(* ------------------------- flight to a fixed target -------------------- *)

\* the targets held constant during a flight: desired altitude and power,
\* rate and angle entries left at 0
AltitudesVol == {2, 10000}

PuissancesVol == {1, 50, 100}

InitVol ==
  /\ sys_avion = SystemeAvion
  /\ appel = AucunAppel
  /\ avertissement = FALSE
  /\ etat_avant = AU_SOL
  /\ ticks = 0
  /\ value = 0
  /\ digits = 1
  /\ bcd = 0
  /\ pc = "vol"
  /\ entrees \in [valide : {TRUE}, altitude_desiree : AltitudesVol, taux_entree : {0},
                  angle_entree : {0}, puissance : PuissancesVol]
  /\ running = TRUE
  /\ en_attente = 1

\* one period of the running simulation: the scheduled simulation_step reads
\* the unchanged entries, calls calculateur with dt = DT and schedules itself again
Vol ==
  /\ pc = "vol"
  /\ LET r == calculateur(entrees.altitude_desiree, entrees.taux_entree,
                          entrees.angle_entree, entrees.puissance, sys_avion, DT)
     IN  /\ sys_avion' = r.sys
         /\ avertissement' = r.avertissement
         /\ etat_avant' = sys_avion.etat
         /\ appel' = [altitude_desiree |-> entrees.altitude_desiree,
                      taux_entree |-> entrees.taux_entree,
                      angle_entree |-> entrees.angle_entree,
                      puissance |-> entrees.puissance, dt |-> DT]
  /\ UNCHANGED <<ticks, value, digits, bcd, pc, entrees, running, en_attente>>

NextVol == Vol

\* root.after runs the scheduled callback after TIME_STEP_MS for as
\* long as the simulation runs: the step is taken whenever it changes the state
SpecVol == InitVol /\ [][NextVol]_vars /\ WF_vars(Vol)

(* --------------------------------- GUI --------------------------------- *)

\* what the user can leave in the Entry widgets: the initial texts, or a text
\* int() rejects
EntreesInvalides ==
  [valide |-> FALSE, altitude_desiree |-> 0, taux_entree |-> 0, angle_entree |-> 0,
   puissance |-> 0]

EntreesGUI == {EntreesInitiales, EntreesInvalides}

\* the body of simulation_step, run with `enMarche` as self.running and `reste`
\* callbacks still scheduled: ValueError stops the simulation and returns;
\* otherwise calculateur is called and, if running, the step is scheduled again
SimulationStep(enMarche, reste) ==
  IF ~entrees.valide
  THEN /\ running' = FALSE
       /\ en_attente' = reste
       /\ UNCHANGED <<sys_avion, appel, avertissement, etat_avant>>
  ELSE LET r == calculateur(entrees.altitude_desiree, entrees.taux_entree,
                            entrees.angle_entree, entrees.puissance, sys_avion, DT)
       IN  /\ sys_avion' = r.sys
           /\ avertissement' = r.avertissement
           /\ etat_avant' = sys_avion.etat
           /\ appel' = [altitude_desiree |-> entrees.altitude_desiree,
                        taux_entree |-> entrees.taux_entree,
                        angle_entree |-> entrees.angle_entree,
                        puissance |-> entrees.puissance, dt |-> DT]
           /\ running' = enMarche
           /\ en_attente' = IF enMarche THEN reste + 1 ELSE reste

InitGUI ==
  /\ sys_avion = SystemeAvion
  /\ appel = AucunAppel
  /\ avertissement = FALSE
  /\ etat_avant = AU_SOL
  /\ ticks = 0
  /\ value = 0
  /\ digits = 1
  /\ bcd = 0
  /\ pc = "gui"
  /\ GuiInit

\* the user edits the Entry widgets
Saisie ==
  /\ pc = "gui"
  /\ entrees' \in EntreesGUI
  /\ UNCHANGED <<sys_avion, appel, avertissement, etat_avant, ticks, value, digits, bcd,
                 pc, running, en_attente>>

\* the start button: start_simulation, with its direct call of simulation_step
start_simulation ==
  /\ pc = "gui"
  /\ (~running /\ entrees.valide) => en_attente < MaxEnAttente
  /\ IF ~running
     THEN SimulationStep(TRUE, en_attente)
     ELSE UNCHANGED <<sys_avion, appel, avertissement, etat_avant, running, en_attente>>
  /\ UNCHANGED <<ticks, value, digits, bcd, pc, entrees>>

\* the stop button: stop_simulation cancels no scheduled callback
stop_simulation ==
  /\ pc = "gui"
  /\ running' = FALSE
  /\ UNCHANGED <<sys_avion, appel, avertissement, etat_avant, ticks, value, digits, bcd,
                 pc, entrees, en_attente>>

\* the reset button: reset_simulation
reset_simulation ==
  /\ pc = "gui"
  /\ running' = FALSE
  /\ sys_avion' = SystemeAvion
  /\ UNCHANGED <<appel, avertissement, etat_avant, ticks, value, digits, bcd, pc,
                 entrees, en_attente>>

\* a callback scheduled by root.after comes due: simulation_step runs
simulation_step ==
  /\ pc = "gui"
  /\ en_attente > 0
  /\ SimulationStep(running, en_attente - 1)
  /\ UNCHANGED <<ticks, value, digits, bcd, pc, entrees>>

NextGUI ==
  \/ Saisie
  \/ start_simulation
  \/ stop_simulation
  \/ reset_simulation
  \/ simulation_step

SpecGUI == InitGUI /\ [][NextGUI]_vars

(* ------------------------------ properties ----------------------------- *)

\* C1: after every calculateur call, 0 <= altitude <= 40000.
C1_AltitudeBornee ==
  /\ sys_avion.altitude_actuelle >= 0
  /\ sys_avion.altitude_actuelle <= ALTITUDE_MAX

\* a 20 min climb at 1000 m/min (65616 ft) was cut at the ceiling
C1_Witness ==
  /\ ticks > 0
  /\ appel.dt = 12000
  /\ sys_avion.taux_monte = 1000
  /\ sys_avion.altitude_actuelle = ALTITUDE_MAX

\* C2: in every reachable state, VOL_CROISIERE implies taux_monte = 0 and
\* angle_attaque = 0.
C2_Croisiere ==
  sys_avion.etat = VOL_CROISIERE =>
    (sys_avion.taux_monte = 0 /\ sys_avion.angle_attaque = 0)

\* a call that went from CHANGEMENT_ALT to VOL_CROISIERE with a non-zero angle input
C2_Witness ==
  /\ sys_avion.etat = VOL_CROISIERE
  /\ etat_avant = CHANGEMENT_ALT
  /\ appel.angle_entree = 16

\* C3: if the altitude after a call with desired altitude D, 0 < D <= 40000,
\* equals D, the state after that same call is VOL_CROISIERE with taux_monte = 0.
C3_CroisiereMemeAppel ==
  (/\ ticks > 0
   /\ appel.altitude_desiree > 0
   /\ appel.altitude_desiree <= ALTITUDE_MAX
   /\ sys_avion.altitude_actuelle = appel.altitude_desiree)
  => (sys_avion.etat = VOL_CROISIERE /\ sys_avion.taux_monte = 0)

\* C4: a call in VOL_CROISIERE at altitude A > 0 with desired altitude D < A and
\* power 1..100 ends in CHANGEMENT_ALT with taux_monte < 0 and an altitude no
\* higher than A, strictly lower when the truncated delta is non-zero.
C4_Step ==
  (/\ ticks' = ticks + 1
   /\ sys_avion.etat = VOL_CROISIERE
   /\ sys_avion.altitude_actuelle > 0
   /\ appel'.altitude_desiree < sys_avion.altitude_actuelle
   /\ appel'.puissance >= 1)
  => (/\ sys_avion'.etat = CHANGEMENT_ALT
      /\ sys_avion'.taux_monte < 0
      /\ sys_avion'.altitude_actuelle <= sys_avion.altitude_actuelle
      /\ (delta_alt(sys_avion'.taux_monte, appel'.dt) # 0
            => sys_avion'.altitude_actuelle < sys_avion.altitude_actuelle))

\* C4 over every call of every behaviour
C4_DescenteDepuisCroisiere == [][C4_Step]_vars

\* C5: a call in VOL_CROISIERE whose desired altitude is the current altitude
\* leaves the mode VOL_CROISIERE, taux_monte = 0 and the altitude unchanged.
C5_Step ==
  (/\ ticks' = ticks + 1
   /\ sys_avion.etat = VOL_CROISIERE
   /\ appel'.altitude_desiree = sys_avion.altitude_actuelle)
  => (/\ sys_avion'.etat = VOL_CROISIERE
      /\ sys_avion'.taux_monte = 0
      /\ sys_avion'.altitude_actuelle = sys_avion.altitude_actuelle)

\* C5 over every call of every behaviour
C5_Quiescence == [][C5_Step]_vars

\* a call made in VOL_CROISIERE with the desired altitude equal to the altitude
\* (a call ending in VOL_CROISIERE leaves the altitude as it was)
C5_Witness ==
  /\ ticks > 0
  /\ etat_avant = VOL_CROISIERE
  /\ sys_avion.etat = VOL_CROISIERE
  /\ appel.altitude_desiree = sys_avion.altitude_actuelle
  /\ appel.puissance > 0

\* digit i (0 = least significant) of v in base b
Chiffre(v, b, i) == (v \div Pow(b, i)) % b

\* C6: bcd_encode(value, d) < 16^d, and when value has more than d decimal
\* digits the result packs its low-order d digits.
C6_Largeur ==
  pc = "bcd_fait" =>
    /\ bcd < Pow(16, digits)
    /\ \A i \in 0..(digits - 1) : Chiffre(bcd, 16, i) = Chiffre(value, 10, i)

\* C7: each of the three words of encoder_ARINC429 is below 2^32 and has an
\* odd number of set bits.
C7_Parite ==
  \A i \in 1..3 :
    LET w == encoder_ARINC429(sys_avion)[i]
    IN  /\ w >= 0
        /\ w \div 65536 < 65536
        /\ Ones(w) % 2 = 1

\* after a call, an altitude word whose parity bit had to be set and a rate
\* word whose parity bit had to stay clear
C7_Witness ==
  /\ ticks > 0
  /\ altitude_word(sys_avion) % 2 = 1
  /\ taux_word(sys_avion) % 2 = 0
  /\ sys_avion.angle_attaque = -16

\* the ground-start call calculateur(10000, 0, 0, 50, state, dt = 0.1)
AppelSol ==
  [altitude_desiree |-> 10000, taux_entree |-> 0, angle_entree |-> 0,
   puissance |-> 50, dt |-> DT]

\* C8: from the initial state, calculateur(10000, 0, 0, 50, state, 0.1) leaves
\* CHANGEMENT_ALT, taux_monte = 500, angle_attaque = 5, puissance_moteur = 50
\* and altitude = 2.
C8_DepartSol ==
  (ticks = 1 /\ appel = AppelSol) =>
    sys_avion = [altitude_actuelle |-> 2, taux_monte |-> 500, angle_attaque |-> 5,
                 puissance_moteur |-> 50, etat |-> CHANGEMENT_ALT]

C8_Witness == ticks = 1 /\ appel = AppelSol /\ sys_avion.altitude_actuelle = 2

\* C9: in every call evaluated in CHANGEMENT_ALT the stall warning is printed
\* if and only if |angle_attaque| > 15 for the angle assigned in that call.
C9_Step ==
  ticks' = ticks + 1 =>
    LET e == EtatEntree(appel'.altitude_desiree, appel'.taux_entree,
                        appel'.angle_entree, appel'.puissance, sys_avion)
    IN  e.etat = CHANGEMENT_ALT =>
          (avertissement' <=>
             Abs(AngleCalcule(e, appel'.altitude_desiree, appel'.angle_entree)) > 15)

\* C9 over every call of every behaviour
C9_Avertissement == [][C9_Step]_vars

\* C10: for value in 0..10^d - 1, the d nibbles of bcd_encode(value, d) are the
\* d decimal digits of value, left-padded with zeros, and nothing lies above them.
C10_AllerRetour ==
  (pc = "bcd_fait" /\ value < Pow(10, digits)) =>
    /\ \A i \in 0..(digits - 1) : Chiffre(bcd, 16, i) = Chiffre(value, 10, i)
    /\ bcd \div Pow(16, digits) = 0

\* 42 on 4 digits is 0x0042
C10_Witness == pc = "bcd_fait" /\ value = 42 /\ digits = 4 /\ bcd = 66

\* C11: encoder_AFDX returns three frames whose top 16 bits are 0x1001, 0x1002
\* and 0x1003, and the low 16 bits of the altitude frame are the stored altitude.
C11_TramesAFDX ==
  LET f == encoder_AFDX(sys_avion)
  IN  /\ Len(f) = 3
      /\ f[1] \div 65536 = 4097
      /\ f[2] \div 65536 = 4098
      /\ f[3] \div 65536 = 4099
      /\ f[1] % 65536 = sys_avion.altitude_actuelle

\* after a call, an altitude that needs all 16 bits of the field
C11_Witness ==
  /\ ticks > 0
  /\ sys_avion.altitude_actuelle = ALTITUDE_MAX
  /\ sys_avion.taux_monte = 1000

\* C12: the altitude word carries label 0x01 in its top 8 bits, status 0b11 in
\* the two bits above the parity bit, and its 2-bit mode field and 16-bit
\* altitude field are the mode and the altitude of the state, so that two
\* states with different (mode, altitude) never share an altitude word.
C12_MotAltitude ==
  LET w == encoder_ARINC429(sys_avion)[1]
  IN  /\ w \div 16777216 = 1
      /\ (w \div 2) % 4 = 3
      /\ (w \div 1048576) % 4 = sys_avion.etat
      /\ (w \div 16) % 65536 = sys_avion.altitude_actuelle

\* VOL_CROISIERE at the ceiling: mode 2 and an altitude with bit 15 set
C12_Witness ==
  /\ ticks > 0
  /\ sys_avion.etat = VOL_CROISIERE
  /\ sys_avion.altitude_actuelle = ALTITUDE_MAX

\* C13: after a call evaluated in CHANGEMENT_ALT that does not end in
\* VOL_CROISIERE, angle_attaque > 0 when the altitude before the integration is
\* below the desired altitude and angle_attaque < 0 when it is above, for any
\* signed angle input.
C13_Step ==
  ticks' = ticks + 1 =>
    LET e == EtatEntree(appel'.altitude_desiree, appel'.taux_entree,
                        appel'.angle_entree, appel'.puissance, sys_avion)
    IN  (e.etat = CHANGEMENT_ALT /\ sys_avion'.etat # VOL_CROISIERE) =>
          /\ (sys_avion.altitude_actuelle < appel'.altitude_desiree
                => sys_avion'.angle_attaque > 0)
          /\ (sys_avion.altitude_actuelle > appel'.altitude_desiree
                => sys_avion'.angle_attaque < 0)

\* C13 over every call of every behaviour
C13_SigneAngle == [][C13_Step]_vars

\* C14: a call made in AU_SOL ends in CHANGEMENT_ALT if and only if
\* (altitude_desiree > 0 and puissance > 0) or (taux_entree != 0 and
\* angle_entree != 0); when the trigger is false the call changes no field.
C14_Step ==
  (ticks' = ticks + 1 /\ sys_avion.etat = AU_SOL) =>
    LET a == appel'
        trigger == \/ (a.altitude_desiree > 0 /\ a.puissance > 0)
                   \/ (a.taux_entree # 0 /\ a.angle_entree # 0)
    IN  /\ (sys_avion'.etat = CHANGEMENT_ALT) <=> trigger
        /\ (~trigger) => sys_avion' = sys_avion

\* C14 over every call of every behaviour
C14_Decollage == [][C14_Step]_vars

\* a first call held on the ground with power and no target, the second took
\* off on the rate and angle inputs alone
C14_Witness ==
  /\ ticks = 2
  /\ etat_avant = AU_SOL
  /\ sys_avion.etat = CHANGEMENT_ALT
  /\ appel.altitude_desiree = 0
  /\ appel.taux_entree # 0
  /\ appel.angle_entree # 0

\* C16: for every call with dt in {0.1, 1.0}, the distance |altitude - D| after
\* the call is not greater than before it.
C16_Step ==
  (ticks' = ticks + 1 /\ appel'.dt \in {DT, DT_DEFAUT}) =>
    Abs(sys_avion'.altitude_actuelle - appel'.altitude_desiree)
      <= Abs(sys_avion.altitude_actuelle - appel'.altitude_desiree)

\* C16 over every call of every behaviour
C16_PasDEloignement == [][C16_Step]_vars

\* C19: two calls from the same state that differ only in taux_entree give the
\* same state when the mode is CHANGEMENT_ALT or VOL_CROISIERE, from AU_SOL
\* differ only when the take-off trigger fires for one and not the other, and
\* never differ in taux_monte.
C19_TauxEntreeSansEffet ==
  \A altitude_desiree \in AltitudesDesirees, angle_entree \in AnglesEntrees,
     puissance \in Puissances, dt \in Pas, t1 \in TauxEntrees, t2 \in TauxEntrees :
    LET r1 == calculateur(altitude_desiree, t1, angle_entree, puissance, sys_avion, dt).sys
        r2 == calculateur(altitude_desiree, t2, angle_entree, puissance, sys_avion, dt).sys
    IN  /\ sys_avion.etat # AU_SOL => r1 = r2
        /\ (sys_avion.etat = AU_SOL /\ r1.etat = r2.etat) => r1 = r2
        /\ r1.taux_monte = r2.taux_monte

\* C15: from the initial state, under repeated calls with constant targets
\* (0 < D <= 40000, power 1..100, dt = 0.1), the mode eventually becomes
\* VOL_CROISIERE with altitude = D.
C15_CibleAtteinte ==
  <>(/\ sys_avion.etat = VOL_CROISIERE
     /\ sys_avion.altitude_actuelle = entrees.altitude_desiree)

\* C17: under any interleaving of start, stop, reset and the scheduled
\* callbacks, at most one simulation_step callback is pending.
C17_UneSeuleChaine == en_attente <= 1

\* C18: while the simulation is stopped (after stop_simulation or
\* reset_simulation and before the next start_simulation) no calculateur call
\* changes the aircraft state: it is left as it is, or replaced by reset.
C18_Step ==
  (~running /\ ~running') =>
    (sys_avion' = sys_avion \/ sys_avion' = SystemeAvion)

\* C18 over every step of every behaviour
C18_ArretEffectif == [][C18_Step]_vars

====
